---- MODULE Spec2Model ----
(***************************************************************************)
(* A model of the utcize normalization pipeline (src/src/datetime.rs) and  *)
(* of the timezone resolver (src/src/tz.rs).                               *)
(*                                                                         *)
(* Strings are sequences of one-character strings, so that trimming,       *)
(* length, prefix tests and the chrono scanners are computed character by  *)
(* character.  Integers wider than 32 bits (epoch values, the i64 range)   *)
(* are kept as decimal digit sequences and compared digit by digit.        *)
(* An instant is [day, sec, ns]: days since 1970-01-01, second of the day, *)
(* nanosecond of the second.                                               *)
(***************************************************************************)
EXTENDS Integers, Sequences, FiniteSets, TLC

\* ------------------------------------------------------------------------
\* Characters
\* ------------------------------------------------------------------------

DigitChars == <<"0", "1", "2", "3", "4", "5", "6", "7", "8", "9">>

IsAsciiDigit(c) == \E i \in 1..10 : DigitChars[i] = c

DigitVal(c) == (CHOOSE i \in 1..10 : DigitChars[i] = c) - 1

\* U+0663 ARABIC-INDIC DIGIT THREE: numeric for char::is_numeric, two bytes
\* in UTF-8, and not a digit for str::parse::<i64>.
ArabicThree == "u0663"

IsNumeric(c) == IsAsciiDigit(c) \/ c = ArabicThree

IsWhitespace(c) == c = " "

ByteLen(c) == IF c = ArabicThree THEN 2 ELSE 1

RECURSIVE StrLen(_)
StrLen(s) == IF s = <<>> THEN 0 ELSE ByteLen(Head(s)) + StrLen(Tail(s))

RECURSIVE TrimStart(_)
TrimStart(s) ==
    IF s # <<>> /\ IsWhitespace(Head(s)) THEN TrimStart(Tail(s)) ELSE s

RECURSIVE TrimEnd(_)
TrimEnd(s) ==
    IF s # <<>> /\ IsWhitespace(s[Len(s)])
    THEN TrimEnd(SubSeq(s, 1, Len(s) - 1))
    ELSE s

Trim(s) == TrimEnd(TrimStart(s))

StartsWith(s, p) == Len(s) >= Len(p) /\ SubSeq(s, 1, Len(p)) = p

EndsWith(s, p) ==
    Len(s) >= Len(p) /\ SubSeq(s, Len(s) - Len(p) + 1, Len(s)) = p

Contains(s, c) == \E i \in 1..Len(s) : s[i] = c

Drop(s, n) == SubSeq(s, n + 1, Len(s))

Take(s, n) == SubSeq(s, 1, n)

AllNumeric(s) == \A i \in 1..Len(s) : IsNumeric(s[i])

AllAsciiDigits(s) == \A i \in 1..Len(s) : IsAsciiDigit(s[i])

\* ------------------------------------------------------------------------
\* Decimal digit sequences as unbounded naturals
\* ------------------------------------------------------------------------

RECURSIVE StripZeros(_)
StripZeros(ds) ==
    IF Len(ds) > 1 /\ Head(ds) = "0" THEN StripZeros(Tail(ds)) ELSE ds

RECURSIVE LexLeq(_, _)
LexLeq(a, b) ==
    IF a = <<>> THEN TRUE
    ELSE IF DigitVal(Head(a)) < DigitVal(Head(b)) THEN TRUE
    ELSE IF DigitVal(Head(a)) > DigitVal(Head(b)) THEN FALSE
    ELSE LexLeq(Tail(a), Tail(b))

\* a <= b for digit sequences read as naturals
NumLeq(a, b) ==
    LET x == StripZeros(a)
        y == StripZeros(b)
    IN  IF Len(x) # Len(y) THEN Len(x) < Len(y) ELSE LexLeq(x, y)

RECURSIVE Zeros(_)
Zeros(n) == IF n = 0 THEN <<>> ELSE <<"0">> \o Zeros(n - 1)

\* the value of a digit sequence known to be below 2^31
RECURSIVE SmallVal(_)
SmallVal(ds) ==
    IF ds = <<>> THEN 0
    ELSE SmallVal(SubSeq(ds, 1, Len(ds) - 1)) * 10 + DigitVal(ds[Len(ds)])

\* long division of a digit sequence by a small divisor: <<quotient, rest>>
RECURSIVE DivMod(_, _, _, _)
DivMod(ds, k, q, r) ==
    IF ds = <<>> THEN <<q, r>>
    ELSE LET cur == r * 10 + DigitVal(Head(ds))
         IN  DivMod(Tail(ds), k, q * 10 + (cur \div k), cur % k)

I64Max == <<"9", "2", "2", "3", "3", "7", "2", "0", "3", "6",
            "8", "5", "4", "7", "7", "5", "8", "0", "7">>

\* str::parse::<i64> on an input without sign: the digits, or an error for
\* an empty string, a non-ASCII digit or a value above i64::MAX
ParseI64(s) ==
    IF s # <<>> /\ AllAsciiDigits(s) /\ NumLeq(s, I64Max)
    THEN [ok |-> TRUE, num |-> StripZeros(s)]
    ELSE [ok |-> FALSE]

\* ------------------------------------------------------------------------
\* Results
\* ------------------------------------------------------------------------

Instant(day, sec, ns) == [day |-> day, sec |-> sec, ns |-> ns]

OkIso(dt) == [kind |-> "Iso", dt |-> dt]

InvalidInput(reason, args) ==
    [kind |-> "InvalidInput", reason |-> reason, args |-> args]

AmbiguousTime(naive, options) ==
    [kind |-> "AmbiguousTime", datetime |-> naive, options |-> options]

\* ------------------------------------------------------------------------
\* Epoch classifier
\* ------------------------------------------------------------------------

detect_epoch_kind(s) ==
    CASE StrLen(s) = 10 -> "Seconds"
      [] StrLen(s) = 13 -> "Milliseconds"
      [] StrLen(s) = 16 -> "Microseconds"
      [] StrLen(s) = 19 -> "Nanoseconds"
      [] OTHER -> "None"

\* number of sub-second digits of a granularity
SubDigits(kind) ==
    CASE kind = "Seconds" -> 0
      [] kind = "Milliseconds" -> 3
      [] kind = "Microseconds" -> 6
      [] kind = "Nanoseconds" -> 9

\* 1_000_000_000 and 3_250_000_000 scaled by the granularity
EpochLow(kind) == <<"1">> \o Zeros(9 + SubDigits(kind))

EpochHigh(kind) == <<"3", "2", "5">> \o Zeros(7 + SubDigits(kind))

EpochInRange(kind, num) ==
    NumLeq(EpochLow(kind), num) /\ NumLeq(num, EpochHigh(kind))

\* secs = num / 10^k, nsecs = (num % 10^k) * 10^(9-k), from_timestamp
EpochToInstant(kind, num) ==
    LET k    == SubDigits(kind)
        secs == Take(num, Len(num) - k)
        sub  == Drop(num, Len(num) - k)
        qr   == DivMod(secs, 86400, 0, 0)
    IN  Instant(qr[1], qr[2], SmallVal(sub \o Zeros(9 - k)))

\* the epoch block of normalize_datetime: a result, or "fall" to go on
EpochStep(s) ==
    IF ~AllNumeric(s) THEN [fall |-> TRUE]
    ELSE LET p == ParseI64(s)
             kind == detect_epoch_kind(s)
         IN  IF ~p.ok \/ kind = "None" THEN [fall |-> TRUE]
             ELSE IF EpochInRange(kind, p.num)
                  THEN [fall |-> FALSE, kind |-> kind,
                        res |-> OkIso(EpochToInstant(kind, p.num))]
                  ELSE [fall |-> FALSE, kind |-> kind,
                        res |-> InvalidInput("Epoch out of valid range", <<>>)]

\* ------------------------------------------------------------------------
\* Calendar (chrono NaiveDate / NaiveDateTime)
\* ------------------------------------------------------------------------

IsLeapYear(y) == (y % 4 = 0 /\ y % 100 # 0) \/ y % 400 = 0

DaysInMonth(y, m) ==
    CASE m \in {1, 3, 5, 7, 8, 10, 12} -> 31
      [] m \in {4, 6, 9, 11} -> 30
      [] OTHER -> IF IsLeapYear(y) THEN 29 ELSE 28

\* chrono's representable years (NaiveDate::MIN .. NaiveDate::MAX)
ValidDate(y, m, d) ==
    /\ y \in -262143..262142
    /\ m \in 1..12
    /\ d \in 1..DaysInMonth(y, m)

\* days since 1970-01-01 of a proleptic Gregorian date
DaysFromCivil(y, m, d) ==
    LET yy  == IF m <= 2 THEN y - 1 ELSE y
        era == yy \div 400
        yoe == yy - era * 400
        mp  == IF m > 2 THEN m - 3 ELSE m + 9
        doy == (153 * mp + 2) \div 5 + d - 1
        doe == yoe * 365 + yoe \div 4 - yoe \div 100 + doy
    IN  era * 146097 + doe - 719468

\* 0 = Sunday .. 6 = Saturday; 1970-01-01 was a Thursday
Weekday(day) == (day + 4) % 7

Naive(y, mo, d, h, mi, s, ns) ==
    [y |-> y, mo |-> mo, d |-> d, h |-> h, mi |-> mi, s |-> s, ns |-> ns]

\* the naive date-time read as if it were UTC
NaiveAsUtc(n) ==
    Instant(DaysFromCivil(n.y, n.mo, n.d), n.h * 3600 + n.mi * 60 + n.s, n.ns)

\* NaiveDateTime::checked_sub_offset: the instant `off` seconds earlier,
\* or none when it leaves the representable range
InstantInRange(i) ==
    /\ i.day >= DaysFromCivil(-262143, 1, 1)
    /\ i.day <= DaysFromCivil(262142, 12, 31)

ShiftBack(i, off) ==
    LET total == i.sec - off
    IN  Instant(i.day + (total \div 86400), total % 86400, i.ns)

\* i - j in seconds, for instants less than a few days apart
SecondsBetween(i, j) == (i.day - j.day) * 86400 + (i.sec - j.sec)

\* ------------------------------------------------------------------------
\* chrono scanners (format::scan) and the strftime-driven parser
\* ------------------------------------------------------------------------

LowerChars == <<"a", "b", "c", "d", "e", "f", "g", "h", "i", "j", "k", "l", "m",
                "n", "o", "p", "q", "r", "s", "t", "u", "v", "w", "x", "y", "z">>

UpperChars == <<"A", "B", "C", "D", "E", "F", "G", "H", "I", "J", "K", "L", "M",
                "N", "O", "P", "Q", "R", "S", "T", "U", "V", "W", "X", "Y", "Z">>

ToLower(c) ==
    IF \E i \in 1..26 : UpperChars[i] = c
    THEN LowerChars[CHOOSE i \in 1..26 : UpperChars[i] = c]
    ELSE c

LowerStr(s) == [i \in 1..Len(s) |-> ToLower(s[i])]

EqIgnoreAsciiCase(a, b) == LowerStr(a) = LowerStr(b)

\* number of leading ASCII digits of s, at most max
RECURSIVE DigitRun(_, _)
DigitRun(s, max) ==
    IF max = 0 \/ s = <<>> \/ ~IsAsciiDigit(Head(s)) THEN 0
    ELSE 1 + DigitRun(Tail(s), max - 1)

Fail == [ok |-> FALSE]

\* scan::number(s, min, max): between min and max digits
ScanNumber(s, min, max) ==
    LET n == DigitRun(s, max)
    IN  IF n < min THEN Fail
        ELSE [ok |-> TRUE, val |-> SmallVal(Take(s, n)), rest |-> Drop(s, n)]

\* a signed year: with an explicit sign any number of digits is read (more
\* than nine cannot be a year), without one at most four
ScanYear(s) ==
    IF s # <<>> /\ Head(s) \in {"+", "-"}
    THEN LET n == DigitRun(Tail(s), 10)
         IN  IF n < 1 \/ n > 9 THEN Fail
             ELSE [ok |-> TRUE,
                   val |-> IF Head(s) = "-" THEN 0 - SmallVal(SubSeq(s, 2, n + 1))
                           ELSE SmallVal(SubSeq(s, 2, n + 1)),
                   rest |-> Drop(s, n + 1)]
    ELSE ScanNumber(s, 1, 4)

RECURSIVE SkipColonOrSpace(_)
SkipColonOrSpace(s) ==
    IF s # <<>> /\ (Head(s) = ":" \/ IsWhitespace(Head(s)))
    THEN SkipColonOrSpace(Tail(s))
    ELSE s

\* scan::timezone_offset: sign, two hour digits, optional colon or spaces,
\* two minute digits below 60; the value in seconds east of UTC
ScanOffset(s) ==
    IF s = <<>> \/ Head(s) \notin {"+", "-"} THEN Fail
    ELSE LET a == Tail(s)
         IN  IF DigitRun(a, 2) < 2 THEN Fail
             ELSE LET b == SkipColonOrSpace(Drop(a, 2))
                  IN  IF DigitRun(b, 2) < 2 THEN Fail
                      ELSE LET hh   == SmallVal(Take(a, 2))
                               mm   == SmallVal(Take(b, 2))
                               secs == (hh * 60 + mm) * 60
                           IN  IF mm >= 60 THEN Fail
                               ELSE [ok |-> TRUE,
                                     val |-> IF Head(s) = "-" THEN 0 - secs ELSE secs,
                                     rest |-> Drop(b, 2)]

ShortMonths ==
    << <<"j", "a", "n">>, <<"f", "e", "b">>, <<"m", "a", "r">>,
       <<"a", "p", "r">>, <<"m", "a", "y">>, <<"j", "u", "n">>,
       <<"j", "u", "l">>, <<"a", "u", "g">>, <<"s", "e", "p">>,
       <<"o", "c", "t">>, <<"n", "o", "v">>, <<"d", "e", "c">> >>

LongMonthSuffixes ==
    << <<"u", "a", "r", "y">>, <<"r", "u", "a", "r", "y">>, <<"c", "h">>,
       <<"i", "l">>, <<>>, <<"e">>,
       <<"y">>, <<"u", "s", "t">>, <<"t", "e", "m", "b", "e", "r">>,
       <<"o", "b", "e", "r">>, <<"e", "m", "b", "e", "r">>,
       <<"e", "m", "b", "e", "r">> >>

\* scan::short_or_long_month0, shifted to 1..12
ScanMonthName(s) ==
    IF Len(s) < 3 \/ ~\E m \in 1..12 : ShortMonths[m] = LowerStr(Take(s, 3))
    THEN Fail
    ELSE LET m    == CHOOSE k \in 1..12 : ShortMonths[k] = LowerStr(Take(s, 3))
             rest == Drop(s, 3)
             suf  == LongMonthSuffixes[m]
         IN  IF Len(rest) >= Len(suf) /\ LowerStr(Take(rest, Len(suf))) = suf
             THEN [ok |-> TRUE, val |-> m, rest |-> Drop(rest, Len(suf))]
             ELSE [ok |-> TRUE, val |-> m, rest |-> rest]

\* the numeric items: field, width, lowest and highest value Parsed accepts
NumericItems ==
    [ m |-> <<"mo", 2, 1, 12>>,  d |-> <<"d", 2, 1, 31>>,
      H |-> <<"h", 2, 0, 23>>,   M |-> <<"mi", 2, 0, 59>>,
      S |-> <<"s", 2, 0, 60>>,   f |-> <<"ns", 9, 0, 999999999>> ]

NoFields == [k \in {} |-> 0]

\* Parsed::set_*: a field may be set twice only to the same value
SetField(st, k, v, rest) ==
    IF k \in DOMAIN st.f /\ st.f[k] # v THEN Fail
    ELSE [ok |-> TRUE, s |-> rest, f |-> (k :> v) @@ st.f]

\* one item of a format against the parse state st = [ok, s, f]
ParseItem(st, item) ==
    CASE item = "%Y" ->
           LET r == ScanYear(TrimStart(st.s))
           IN  IF r.ok THEN SetField(st, "y", r.val, r.rest) ELSE Fail
      [] item \in {"%m", "%d", "%H", "%M", "%S", "%f"} ->
           LET spec == NumericItems[
                         CASE item = "%m" -> "m" [] item = "%d" -> "d"
                           [] item = "%H" -> "H" [] item = "%M" -> "M"
                           [] item = "%S" -> "S" [] item = "%f" -> "f"]
               r == ScanNumber(TrimStart(st.s), 1, spec[2])
           IN  IF r.ok /\ r.val >= spec[3] /\ r.val <= spec[4]
               THEN SetField(st, spec[1], r.val, r.rest)
               ELSE Fail
      [] item \in {"%B", "%b"} ->
           LET r == ScanMonthName(st.s)
           IN  IF r.ok THEN SetField(st, "mo", r.val, r.rest) ELSE Fail
      [] item \in {"%z", "%:z"} ->
           LET r == ScanOffset(TrimStart(st.s))
           IN  IF r.ok THEN SetField(st, "off", r.val, r.rest) ELSE Fail
      [] item = " " -> [st EXCEPT !.s = TrimStart(st.s)]
      [] OTHER ->
           IF st.s # <<>> /\ Head(st.s) = item
           THEN [st EXCEPT !.s = Tail(st.s)]
           ELSE Fail

RECURSIVE ParseItems(_, _)
ParseItems(st, fmt) ==
    IF ~st.ok THEN Fail
    ELSE IF fmt = <<>> THEN st
    ELSE ParseItems(ParseItem(st, Head(fmt)), Tail(fmt))

\* format::parse: every item matched and nothing left over
Finished(st) == IF st.ok /\ st.s = <<>> THEN st ELSE Fail

ParseWith(s, fmt) ==
    Finished(ParseItems([ok |-> TRUE, s |-> s, f |-> NoFields], fmt))

Has(f, k) == k \in DOMAIN f

\* Parsed::to_naive_date
ToNaiveDate(f) ==
    IF Has(f, "y") /\ Has(f, "mo") /\ Has(f, "d") /\ ValidDate(f.y, f.mo, f.d)
    THEN [ok |-> TRUE, val |-> Naive(f.y, f.mo, f.d, 0, 0, 0, 0)]
    ELSE Fail

\* Parsed::to_naive_datetime_with_offset: date, hour and minute are needed;
\* the second defaults to 0 and a second of 60 is a leap second
ToNaiveDateTime(f) ==
    IF Has(f, "y") /\ Has(f, "mo") /\ Has(f, "d") /\ ValidDate(f.y, f.mo, f.d)
       /\ Has(f, "h") /\ Has(f, "mi")
    THEN [ok |-> TRUE,
          val |-> Naive(f.y, f.mo, f.d, f.h, f.mi,
                        IF Has(f, "s") /\ f.s < 60 THEN f.s
                        ELSE IF Has(f, "s") THEN 59 ELSE 0,
                        (IF Has(f, "ns") THEN f.ns ELSE 0)
                        + (IF Has(f, "s") /\ f.s = 60 THEN 1000000000 ELSE 0))]
    ELSE Fail

\* the instant of a naive date-time at an offset, when representable
AtOffset(ndt, off) ==
    IF ndt.ok /\ InstantInRange(ShiftBack(NaiveAsUtc(ndt.val), off))
    THEN [ok |-> TRUE, val |-> ShiftBack(NaiveAsUtc(ndt.val), off)]
    ELSE Fail

\* Parsed::to_datetime, then with_timezone(&Utc): an offset below a day is
\* needed and the instant must stay representable
ToDateTimeUtc(f) ==
    IF Has(f, "off") /\ f.off > -86400 /\ f.off < 86400
    THEN AtOffset(ToNaiveDateTime(f), f.off)
    ELSE Fail

\* the three conversions of a finished format::parse
ParsedToDateTimeUtc(st) == IF st.ok THEN ToDateTimeUtc(st.f) ELSE Fail

ParsedToNaiveDateTime(st) == IF st.ok THEN ToNaiveDateTime(st.f) ELSE Fail

ParsedToNaiveDate(st) == IF st.ok THEN ToNaiveDate(st.f) ELSE Fail

\* DateTime::parse_from_str(s, fmt) followed by with_timezone(&Utc)
DateTimeParseFromStr(s, fmt) == ParsedToDateTimeUtc(ParseWith(s, fmt))

\* NaiveDateTime::parse_from_str(s, fmt)
NaiveDateTimeParseFromStr(s, fmt) == ParsedToNaiveDateTime(ParseWith(s, fmt))

\* NaiveDate::parse_from_str(s, fmt) and and_hms_opt(0, 0, 0)
NaiveDateParseFromStr(s, fmt) == ParsedToNaiveDate(ParseWith(s, fmt))

\* ------------------------------------------------------------------------
\* RFC 3339 and RFC 2822 (DateTime::parse_from_rfc3339 / parse_from_rfc2822)
\* ------------------------------------------------------------------------

ShortWeekdays ==
    << <<"s", "u", "n">>, <<"m", "o", "n">>, <<"t", "u", "e">>, <<"w", "e", "d">>, <<"t", "h", "u">>, <<"f", "r", "i">>, <<"s", "a", "t">> >>

\* a field of exactly `width` digits with a value in lo..hi
FixedField(st, k, width, lo, hi) ==
    IF DigitRun(st.s, width) = width
       /\ SmallVal(Take(st.s, width)) >= lo /\ SmallVal(Take(st.s, width)) <= hi
    THEN SetField(st, k, SmallVal(Take(st.s, width)), Drop(st.s, width))
    ELSE Fail

\* one element of the RFC 3339 or RFC 2822 grammar against st = [ok, s, f]
RfcItem(st, item) ==
    CASE item = "Y4" -> FixedField(st, "y", 4, 0, 9999)
      [] item = "m2" -> FixedField(st, "mo", 2, 1, 12)
      [] item = "d2" -> FixedField(st, "d", 2, 1, 31)
      [] item = "H2" -> FixedField(st, "h", 2, 0, 23)
      [] item = "M2" -> FixedField(st, "mi", 2, 0, 59)
      [] item = "S2" -> FixedField(st, "s", 2, 0, 60)
      [] item = "T" ->
           IF st.s # <<>> /\ Head(st.s) \in {"T", "t", " "}
           THEN [st EXCEPT !.s = Tail(st.s)]
           ELSE Fail
      [] item = "frac?" ->
           IF st.s # <<>> /\ Head(st.s) = "."
           THEN IF DigitRun(Tail(st.s), 9) = 0 THEN Fail
                ELSE SetField(st, "ns",
                       SmallVal(SubSeq(st.s, 2, DigitRun(Tail(st.s), 9) + 1)
                                \o Zeros(9 - DigitRun(Tail(st.s), 9))),
                       Drop(st.s, DigitRun(Tail(st.s), Len(st.s)) + 1))
           ELSE st
      [] item = "offset" ->
           IF st.s # <<>> /\ Head(st.s) \in {"Z", "z"}
           THEN SetField(st, "off", 0, Tail(st.s))
           ELSE IF Len(st.s) >= 6 /\ st.s[4] = ":" /\ ScanOffset(st.s).ok
                THEN SetField(st, "off", ScanOffset(st.s).val, ScanOffset(st.s).rest)
                ELSE Fail
      [] item = "wd?" ->
           IF Len(st.s) >= 4 /\ st.s[4] = ","
           THEN IF \E w \in 1..7 : ShortWeekdays[w] = LowerStr(Take(st.s, 3))
                THEN SetField(st, "wd",
                       (CHOOSE w \in 1..7 : ShortWeekdays[w] = LowerStr(Take(st.s, 3))) - 1,
                       TrimStart(Drop(st.s, 4)))
                ELSE Fail
           ELSE st
      [] item = "d12" ->
           IF DigitRun(st.s, 2) >= 1
              /\ SmallVal(Take(st.s, DigitRun(st.s, 2))) \in 1..31
           THEN SetField(st, "d", SmallVal(Take(st.s, DigitRun(st.s, 2))),
                         Drop(st.s, DigitRun(st.s, 2)))
           ELSE Fail
      [] item = "mon" ->
           IF Len(st.s) >= 3 /\ \E m \in 1..12 : ShortMonths[m] = LowerStr(Take(st.s, 3))
           THEN SetField(st, "mo",
                  CHOOSE m \in 1..12 : ShortMonths[m] = LowerStr(Take(st.s, 3)),
                  Drop(st.s, 3))
           ELSE Fail
      [] item = "sp" ->
           IF st.s # <<>> /\ IsWhitespace(Head(st.s))
           THEN [st EXCEPT !.s = TrimStart(st.s)]
           ELSE Fail
      [] item = ":S2?" ->
           IF st.s # <<>> /\ Head(st.s) = ":"
           THEN FixedField([st EXCEPT !.s = Tail(st.s)], "s", 2, 0, 60)
           ELSE st
      [] item = "zone" ->
           IF \E z \in {<<"G", "M", "T">>, <<"U", "T">>, <<"Z">>} : EqIgnoreAsciiCase(st.s, z)
           THEN SetField(st, "off", 0, <<>>)
           ELSE IF Len(st.s) = 5 /\ DigitRun(Tail(st.s), 4) = 4 /\ ScanOffset(st.s).ok
                THEN SetField(st, "off", ScanOffset(st.s).val, ScanOffset(st.s).rest)
                ELSE Fail
      [] OTHER ->
           IF st.s # <<>> /\ Head(st.s) = item
           THEN [st EXCEPT !.s = Tail(st.s)]
           ELSE Fail

RECURSIVE RfcItems(_, _)
RfcItems(st, fmt) ==
    IF ~st.ok THEN Fail
    ELSE IF fmt = <<>> THEN st
    ELSE RfcItems(RfcItem(st, Head(fmt)), Tail(fmt))

\* date-fullyear "-" month "-" mday ("T" | "t" | " ") hour ":" minute ":"
\* second [ "." digits ] ( "Z" | "z" | sign hour ":" minute )
Rfc3339Format ==
    <<"Y4", "-", "m2", "-", "d2", "T", "H2", ":", "M2", ":", "S2", "frac?", "offset">>

\* [ day-name "," ] day month-name year hour ":" minute [ ":" second ] zone
Rfc2822Format ==
    <<"wd?", "d12", "sp", "mon", "sp", "Y4", "sp", "H2", ":", "M2", ":S2?", "sp", "zone">>

\* every element matched and nothing left over
RfcParse(s, fmt) ==
    RfcItems([ok |-> TRUE, s |-> s, f |-> NoFields], fmt)

\* Parsed::to_datetime and with_timezone(&Utc) of the fields of a finished
\* parse; a day name that contradicts the date is an error
RfcToUtc(st) ==
    IF ~st.ok \/ st.s # <<>> THEN Fail
    ELSE IF Has(st.f, "wd") /\ Has(st.f, "y") /\ ValidDate(st.f.y, st.f.mo, st.f.d)
            /\ Weekday(DaysFromCivil(st.f.y, st.f.mo, st.f.d)) # st.f.wd
    THEN Fail
    ELSE ToDateTimeUtc(st.f)

\* DateTime::parse_from_rfc3339(s) followed by with_timezone(&Utc)
ParseFromRfc3339(s) == RfcToUtc(RfcParse(s, Rfc3339Format))

\* DateTime::parse_from_rfc2822(s) followed by with_timezone(&Utc)
ParseFromRfc2822(s) == RfcToUtc(RfcParse(s, Rfc2822Format))

\* ------------------------------------------------------------------------
\* Timezones: FixedOffset::from_str, chrono_tz::Tz::from_str, zone rules
\* ------------------------------------------------------------------------

\* the zones of the database this model knows: the name, the standard
\* offset and whether the EU summer-time rule applies
TzDatabase ==
    << [name |-> "UTC",           chars |-> <<"U", "T", "C">>,           std |-> 0,     eu |-> FALSE],
       [name |-> "Asia/Jakarta",  chars |-> <<"A", "s", "i", "a", "/", "J", "a", "k", "a", "r", "t", "a">>,  std |-> 25200, eu |-> FALSE],
       [name |-> "Europe/Paris",  chars |-> <<"E", "u", "r", "o", "p", "e", "/", "P", "a", "r", "i", "s">>,  std |-> 3600,  eu |-> TRUE],
       [name |-> "Europe/Berlin", chars |-> <<"E", "u", "r", "o", "p", "e", "/", "B", "e", "r", "l", "i", "n">>, std |-> 3600,  eu |-> TRUE] >>

TzIndex(name) == CHOOSE i \in 1..Len(TzDatabase) : TzDatabase[i].name = name

\* <Tz as FromStr>::from_str: an exact, case-sensitive name of the database
TzFromStr(s) ==
    IF \E i \in 1..Len(TzDatabase) : TzDatabase[i].chars = s
    THEN [ok |-> TRUE,
          val |-> TzDatabase[CHOOSE i \in 1..Len(TzDatabase) : TzDatabase[i].chars = s].name]
    ELSE Fail

\* <FixedOffset as FromStr>::from_str: the offset scanned at the head of
\* the string, which must be less than a day
FixedOffsetFromStr(s) ==
    LET r == ScanOffset(s)
    IN  IF r.ok /\ r.val > -86400 /\ r.val < 86400
        THEN [ok |-> TRUE, val |-> r.val]
        ELSE Fail

TzFixed(off) == [kind |-> "FixedOffset", offset |-> off]

TzIana(name) == [kind |-> "Iana", tz |-> name]

TzOk(z) == [ok |-> TRUE, val |-> z]

TzErr(reason, arg) == [ok |-> FALSE, err |-> InvalidInput(reason, <<arg>>)]

\* tz.rs parse_timezone_str comparing "UTC" with case
tz_parse_timezone_str_CaseSensitive(tz_str0) ==
    IF Trim(tz_str0) = <<"U", "T", "C">> THEN TzOk(TzFixed(0))
    ELSE IF StartsWith(Trim(tz_str0), <<"+">>) \/ StartsWith(Trim(tz_str0), <<"-">>)
    THEN IF FixedOffsetFromStr(Trim(tz_str0)).ok
         THEN TzOk(TzFixed(FixedOffsetFromStr(Trim(tz_str0)).val))
         ELSE TzErr("Invalid fixed offset format", Trim(tz_str0))
    ELSE IF ~Contains(Trim(tz_str0), "/") \/ StartsWith(Trim(tz_str0), <<"/">>)
            \/ EndsWith(Trim(tz_str0), <<"/">>)
    THEN TzErr("Invalid IANA timezone format", Trim(tz_str0))
    ELSE IF TzFromStr(Trim(tz_str0)).ok
         THEN TzOk(TzIana(TzFromStr(Trim(tz_str0)).val))
         ELSE TzErr("Unknown IANA timezone", Trim(tz_str0))

\* tz.rs parse_timezone_str without the Region/City shape test
tz_parse_timezone_str_NoShapeTest(tz_str0) ==
    IF EqIgnoreAsciiCase(Trim(tz_str0), <<"U", "T", "C">>) THEN TzOk(TzFixed(0))
    ELSE IF StartsWith(Trim(tz_str0), <<"+">>) \/ StartsWith(Trim(tz_str0), <<"-">>)
    THEN IF FixedOffsetFromStr(Trim(tz_str0)).ok
         THEN TzOk(TzFixed(FixedOffsetFromStr(Trim(tz_str0)).val))
         ELSE TzErr("Invalid fixed offset format", Trim(tz_str0))
    ELSE IF TzFromStr(Trim(tz_str0)).ok
         THEN TzOk(TzIana(TzFromStr(Trim(tz_str0)).val))
         ELSE TzErr("Unknown IANA timezone", Trim(tz_str0))

\* tz.rs: parse_timezone_str
tz_parse_timezone_str(tz_str0) ==
    LET tz_str == Trim(tz_str0)
    IN  IF EqIgnoreAsciiCase(tz_str, <<"U", "T", "C">>) THEN TzOk(TzFixed(0))
        ELSE IF StartsWith(tz_str, <<"+">>) \/ StartsWith(tz_str, <<"-">>)
        THEN IF FixedOffsetFromStr(tz_str).ok
             THEN TzOk(TzFixed(FixedOffsetFromStr(tz_str).val))
             ELSE TzErr("Invalid fixed offset format", tz_str)
        ELSE IF ~Contains(tz_str, "/") \/ StartsWith(tz_str, <<"/">>)
                \/ EndsWith(tz_str, <<"/">>)
        THEN TzErr("Invalid IANA timezone format", tz_str)
        ELSE IF TzFromStr(tz_str).ok
             THEN TzOk(TzIana(TzFromStr(tz_str).val))
             ELSE TzErr("Unknown IANA timezone", tz_str)

\* datetime.rs: parse_timezone_str, the resolver normalize_datetime calls
parse_timezone_str(tz_str) ==
    IF (StartsWith(tz_str, <<"+">>) \/ StartsWith(tz_str, <<"-">>))
       /\ FixedOffsetFromStr(tz_str).ok
    THEN TzOk(TzFixed(FixedOffsetFromStr(tz_str).val))
    ELSE IF TzFromStr(tz_str).ok
         THEN TzOk(TzIana(TzFromStr(tz_str).val))
         ELSE TzErr("Timezone is invalid fixed offset or IANA timezone", tz_str)

\* the day of the last Sunday of a month
LastSunday(y, m) ==
    LET last == DaysFromCivil(y, m, DaysInMonth(y, m))
    IN  last - Weekday(last)

\* i is before second `sec` (which may exceed a day) of day `day`
Before(i, day, sec) ==
    LET dd == day + (sec \div 86400)
        ss == sec % 86400
    IN  i.day < dd \/ (i.day = dd /\ i.sec < ss)

\* the years for which the zone table holds the EU rule: summer time from
\* 01:00 UTC on the last Sunday of March to 01:00 UTC on the last Sunday
\* of October
EuRuleYears == 1996..2099

\* Tz::offset_from_local_datetime: the offsets of the timespans, in table
\* order, whose local span contains the naive time: none in a gap, two in
\* an overlap
LocalOffsets(name, n) ==
    LET z == TzDatabase[TzIndex(name)]
        l == NaiveAsUtc(n)
    IN  IF ~z.eu \/ n.y \notin EuRuleYears THEN <<z.std>>
        ELSE LET on  == LastSunday(n.y, 3)
                 off == LastSunday(n.y, 10)
                 inWinterBefore == Before(l, on, 3600 + z.std)
                 inSummer == ~Before(l, on, 3600 + z.std + 3600)
                             /\ Before(l, off, 3600 + z.std + 3600)
                 inWinterAfter == ~Before(l, off, 3600 + z.std)
             IN  (IF inWinterBefore THEN <<z.std>> ELSE <<>>)
                 \o (IF inSummer THEN <<z.std + 3600>> ELSE <<>>)
                 \o (IF inWinterAfter THEN <<z.std>> ELSE <<>>)

\* TimeZone::from_local_datetime for a fixed offset: Single, or None when
\* local - offset is not representable
FixedFromLocal(off, n) ==
    LET i == ShiftBack(NaiveAsUtc(n), off)
    IN  IF InstantInRange(i) THEN <<i>> ELSE <<>>

\* TimeZone::from_local_datetime for a named zone: each offset mapped to
\* its instant; None when any of them is not representable
IanaFromLocal(name, n) ==
    LET offs == LocalOffsets(name, n)
        cand == [k \in 1..Len(offs) |-> ShiftBack(NaiveAsUtc(n), offs[k])]
    IN  IF \A k \in 1..Len(cand) : InstantInRange(cand[k]) THEN cand ELSE <<>>

\* the projection of normalize_datetime
ProjectFixed(off, n) ==
    LET r == FixedFromLocal(off, n)
    IN  IF Len(r) = 1 THEN OkIso(r[1]) ELSE OkIso(NaiveAsUtc(n))

\* ProjectIana taking the first instant of an overlap
ProjectIana_FirstOfTwo(name, n) ==
    IF Len(IanaFromLocal(name, n)) >= 1 THEN OkIso(IanaFromLocal(name, n)[1])
    ELSE InvalidInput("Nonexistent local time due to DST", <<n, name>>)

ProjectIana(name, n) ==
    LET r == IanaFromLocal(name, n)
    IN  CASE Len(r) = 1 -> OkIso(r[1])
          [] Len(r) = 2 -> AmbiguousTime(n, <<r[1], r[2]>>)
          [] OTHER -> InvalidInput("Nonexistent local time due to DST", <<n, name>>)

Project(tz, n) ==
    IF tz.kind = "FixedOffset" THEN ProjectFixed(tz.offset, n)
    ELSE ProjectIana(tz.tz, n)

\* ------------------------------------------------------------------------
\* Flexible format matcher (parse_datetime_flexible)
\* ------------------------------------------------------------------------

EuFormats ==
    << <<"%d", "-", "%m", "-", "%Y", " ", "%H", ":", "%M", ":", "%S", "%z">>,
       <<"%d", "-", "%m", "-", "%Y", " ", "%H", ":", "%M", ":", "%S">>,
       <<"%d", "-", "%m", "-", "%Y">> >>

UsFormats ==
    << <<"%m", "-", "%d", "-", "%Y", " ", "%H", ":", "%M", ":", "%S", "%z">>,
       <<"%m", "-", "%d", "-", "%Y", " ", "%H", ":", "%M", ":", "%S">>,
       <<"%m", "-", "%d", "-", "%Y">> >>

IsoFormats ==
    << <<"%Y", "-", "%m", "-", "%d", "T", "%H", ":", "%M", ":", "%S", "%z">>,
       <<"%Y", "-", "%m", "-", "%d", "T", "%H", ":", "%M", ":", "%S", "%:z">>,
       <<"%Y", "-", "%m", "-", "%d", " ", "%H", ":", "%M", ":", "%S", "%z">>,
       <<"%Y", "-", "%m", "-", "%d", " ", "%H", ":", "%M", ":", "%S">>,
       <<"%Y", "-", "%m", "-", "%d">> >>

\* BuildFormats with the custom patterns appended after the defaults
BuildFormats_CustomLast(prefer_eu, custom_formats) ==
    (IF prefer_eu THEN EuFormats ELSE UsFormats) \o IsoFormats \o custom_formats

\* BuildFormats with the locale blocks exchanged
BuildFormats_LocaleSwapped(prefer_eu, custom_formats) ==
    custom_formats \o (IF prefer_eu THEN UsFormats ELSE EuFormats) \o IsoFormats

\* the candidate list: the custom patterns, the locale block, the ISO tail
BuildFormats(prefer_eu, custom_formats) ==
    custom_formats \o (IF prefer_eu THEN EuFormats ELSE UsFormats) \o IsoFormats

HasOffsetToken(fmt) ==
    \E i \in 1..Len(fmt) : fmt[i] = "%z" \/ fmt[i] = "%:z"

WithTimezone(dt) == [kind |-> "WithTimezone", dt |-> dt]

NaiveParsed(n) == [kind |-> "Naive", naive |-> n]

NoMatch == [kind |-> "NoMatch"]

\* Attempts with the naive attempts made before the zone-qualified one
Attempts_NaiveFirst(st, fmt) ==
    IF ParsedToNaiveDateTime(st).ok
    THEN NaiveParsed(ParsedToNaiveDateTime(st).val)
    ELSE IF ParsedToDateTimeUtc(st).ok
    THEN WithTimezone(ParsedToDateTimeUtc(st).val)
    ELSE IF ParsedToNaiveDate(st).ok
    THEN NaiveParsed(ParsedToNaiveDate(st).val)
    ELSE NoMatch

\* the three attempts of the loop body on the fields `st` that format::parse
\* yields for the pattern: DateTime, then (without an offset token)
\* NaiveDateTime, then NaiveDate at midnight
Attempts(st, fmt) ==
    IF ParsedToDateTimeUtc(st).ok
    THEN WithTimezone(ParsedToDateTimeUtc(st).val)
    ELSE IF HasOffsetToken(fmt) THEN NoMatch
    ELSE IF ParsedToNaiveDateTime(st).ok
    THEN NaiveParsed(ParsedToNaiveDateTime(st).val)
    ELSE IF ParsedToNaiveDate(st).ok
    THEN NaiveParsed(ParsedToNaiveDate(st).val)
    ELSE NoMatch

\* the body of the loop of parse_datetime_flexible for one pattern
TryFormat(s, fmt) == Attempts(ParseWith(s, fmt), fmt)

\* ------------------------------------------------------------------------
\* Inputs
\* ------------------------------------------------------------------------

\* the longest generated all-digit input
MaxDigits == 20

RECURSIVE Repeat(_, _)
Repeat(c, n) == IF n <= 0 THEN <<>> ELSE <<c>> \o Repeat(c, n - 1)

\* leading digits that put the value below, on and above each range end
\* and each side of i64::MAX
DigitPrefixes ==
    { <<"0">>, <<"1">>, <<"3", "2", "5">>, I64Max,
      <<"9", "2", "2", "3", "3", "7", "2", "0", "3", "6", "8", "5", "4", "7", "7", "5", "8", "0", "8">> }

GeneratedDigits ==
    { p \o Repeat(c, n - Len(p)) :
        p \in DigitPrefixes, c \in {"0", "9"}, n \in 1..MaxDigits }

NumericInputs ==
    { d \in GeneratedDigits : Len(d) <= MaxDigits }
    \cup { <<"1", "6", "7", "2", "5", "3", "1", "2", "0", "0">>, <<"1", "6", "7", "2", "5", "3", "1", "2", "0", "0", "1", "2", "3">>, <<"1", "6", "7", "2", "5", "3", "1", "2", "0", "0", "1", "2", "3", "4", "5", "6">>,
           <<"1", "6", "7", "2", "5", "3", "1", "2", "0", "0", "1", "2", "3", "4", "5", "6", "7", "8", "9">>, <<"3", "2", "5", "0", "0", "0", "0", "0", "0", "1">>, <<" ", "1", "6", "7", "2", "5", "3", "1", "2", "0", "0", " ">>,
           <<"9", "9", "9", "9", "1", "2", "3", "1", "2", "3", "5", "9", "5", "9", "0", "0", "0", "0", "0">>,
           <<"2", "0", "2", "3", "0", "6", "0", "1", "1", "0", "0", "0", "0", "0", "1", "2">>,
           <<"5", "0", "0", "0", "0", "1", "0", "1", "1", "2", "0", "0", "0", "0", "0", "0", "0", "0", "0">>,
           <<"1", "6", "7", "2", "5", "3", "1", "2">> \o <<ArabicThree>>,
           <<"1", "6", "7", "2", "5", "3", "1", "2", "0">> \o <<ArabicThree>> }

TextInputs ==
    { <<"0", "1", "-", "0", "6", "-", "2", "0", "2", "3">>, <<"1", "3", "-", "0", "6", "-", "2", "0", "2", "3">>, <<"0", "1", "-", "0", "6", "-", "2", "0", "2", "3", " ", "1", "0", ":", "0", "0", ":", "0", "0">>,
      <<"0", "1", "-", "0", "6", "-", "2", "0", "2", "3", " ", "1", "0", ":", "0", "0", ":", "0", "0", "+", "0", "7", "0", "0">>,
      <<"2", "0", "2", "3", "-", "0", "6", "-", "0", "1">>, <<"2", "0", "2", "3", "-", "0", "2", "-", "3", "0">>, <<"2", "0", "2", "3", "-", "0", "6", "-", "0", "1", " ", "1", "0", ":", "0", "0", ":", "0", "0">>,
      <<" ", "2", "0", "2", "3", "-", "0", "6", "-", "0", "1", " ", "1", "0", ":", "0", "0", ":", "0", "0", " ">>,
      <<"2", "0", "2", "3", "-", "0", "6", "-", "0", "1", " ", "1", "0", ":", "0", "0", ":", "0", "0", "+", "0", "7", "0", "0">>, <<"2", "0", "2", "3", "-", "0", "6", "-", "0", "1", "T", "1", "0", ":", "0", "0", ":", "0", "0", "+", "0", "7", "0", "0">>,
      <<"2", "0", "2", "3", "-", "0", "6", "-", "0", "1", "T", "1", "0", ":", "0", "0", ":", "0", "0", "+", "0", "7", ":", "0", "0">>, <<"2", "0", "2", "3", "-", "0", "6", "-", "0", "1", "T", "1", "0", ":", "0", "0", ":", "0", "0", ".", "5", "Z">>,
      <<"T", "h", "u", ",", " ", "0", "1", " ", "J", "u", "n", " ", "2", "0", "2", "3", " ", "1", "0", ":", "0", "0", ":", "0", "0", " ", "+", "0", "7", "0", "0">>, <<"0", "1", " ", "J", "u", "n", " ", "2", "0", "2", "3", " ", "1", "0", ":", "0", "0", " ", "G", "M", "T">>,
      <<"2", "0", "2", "3", "|", "0", "6", "|", "0", "1", " ", "1", "0", ":", "0", "0">>, <<"0", "1", ".", "J", "u", "n", "e", ".", "2", "0", "2", "3", " ", "1", "0", ":", "0", "0">>,
      <<"2", "0", "2", "3", "-", "1", "0", "-", "2", "9", " ", "0", "2", ":", "3", "0", ":", "0", "0">>, <<"2", "0", "2", "3", "-", "0", "3", "-", "2", "6", " ", "0", "2", ":", "3", "0", ":", "0", "0">>,
      <<"2", "0", "2", "3", "-", "1", "0", "-", "2", "9", " ", "0", "3", ":", "0", "0", ":", "0", "0">>, <<"2", "0", "2", "3", "-", "0", "3", "-", "2", "6", " ", "0", "3", ":", "0", "0", ":", "0", "0">>,
      <<"+", "2", "6", "2", "1", "4", "2", "-", "1", "2", "-", "3", "1", " ", "2", "3", ":", "3", "0", ":", "0", "0">>,
      <<"0", "1", "/", "0", "6", "/", "2", "0", "2", "3">>, <<"2", "0", "2", "3", "-", "W", "2", "2", "-", "4">>,
      <<"n", "o", "t", " ", "a", " ", "d", "a", "t", "e">>, <<>> }

Inputs == NumericInputs \cup TextInputs

ZoneSpecs ==
    { <<"U", "T", "C">>, <<"u", "t", "c">>, <<"U", "t", "c">>, <<" ", "U", "T", "C", " ">>,
      <<"+", "0", "7", ":", "0", "0">>, <<"-", "0", "8", "3", "0">>, <<"-", "0", "1", ":", "0", "0">>, <<"+", "7">>, <<"+", "2", "5", ":", "0", "0">>, <<"-", "a", "b">>,
      <<"A", "s", "i", "a", "/", "J", "a", "k", "a", "r", "t", "a">>, <<"E", "u", "r", "o", "p", "e", "/", "P", "a", "r", "i", "s">>, <<"E", "u", "r", "o", "p", "e", "/", "B", "e", "r", "l", "i", "n">>,
      <<" ", "A", "s", "i", "a", "/", "J", "a", "k", "a", "r", "t", "a">>,
      <<"/", "A", "s", "i", "a", "/", "J", "a", "k", "a", "r", "t", "a">>, <<"A", "s", "i", "a", "/", "J", "a", "k", "a", "r", "t", "a", "/">>, <<"A", "s", "i", "a">>, <<"0", "8", "0", "0">>,
      <<"I", "n", "v", "a", "l", "i", "d", "/", "Z", "o", "n", "e">>, <<"e", "u", "r", "o", "p", "e", "/", "p", "a", "r", "i", "s">>, <<>> }

\* the fallback zones normalize is called with
FallbackZones ==
    { <<"U", "T", "C">>, <<"u", "t", "c">>, <<"+", "0", "7", ":", "0", "0">>, <<"-", "0", "1", ":", "0", "0">>, <<"+", "7">>,
      <<"A", "s", "i", "a", "/", "J", "a", "k", "a", "r", "t", "a">>, <<"E", "u", "r", "o", "p", "e", "/", "P", "a", "r", "i", "s">>, <<"E", "u", "r", "o", "p", "e", "/", "B", "e", "r", "l", "i", "n">>, <<"A", "s", "i", "a">> }

\* the custom pattern lists: none, the two of the crate documentation, two
\* that compete with the default patterns, one made of digits only
CustomLists ==
    { <<>>,
      << <<"%Y", "|", "%m", "|", "%d", " ", "%H", ":", "%M">>,
         <<"%d", ".", "%B", ".", "%Y", " ", "%H", ":", "%M">> >>,
      << <<"%Y", "-", "%d", "-", "%m">>,
         <<"%m", "-", "%d", "-", "%Y">> >>,
      << <<"%Y", "%m", "%d", "%H", "%M", "%S", "%f">> >> }

\* ------------------------------------------------------------------------
\* The pipeline as a state machine
\* ------------------------------------------------------------------------

VARIABLES
    op,             \* "normalize" or "resolve_timezone"
    input,          \* normalize: the text to convert
    fallback_tz,    \* the zone specifier
    prefer_eu,
    custom_formats,
    pc,             \* the step about to run
    s,              \* the trimmed input
    formats,        \* the candidate list of the flexible matcher
    tried,          \* the patterns the flexible matcher has tried, in order
    epoch_kind,     \* the granularity the epoch step detected
    parsed,         \* the result of the flexible matcher
    tz,             \* the resolved fallback zone
    result,         \* the value returned
    trace           \* the steps run so far

vars == <<op, input, fallback_tz, prefer_eu, custom_formats, pc, s, formats,
          tried, epoch_kind, parsed, tz, result, trace>>

args == <<op, input, fallback_tz, prefer_eu, custom_formats>>

NoResult == [kind |-> "None"]

NoTz == [kind |-> "None"]

Init ==
    /\ op \in {"normalize", "resolve_timezone"}
    /\ IF op = "normalize"
       THEN /\ fallback_tz \in FallbackZones
            /\ input \in Inputs
            /\ prefer_eu \in BOOLEAN
            /\ custom_formats \in CustomLists
       ELSE /\ fallback_tz \in ZoneSpecs
            /\ input = <<>>
            /\ prefer_eu = FALSE
            /\ custom_formats = <<>>
    /\ pc = "Start"
    /\ s = <<>>
    /\ formats = <<>>
    /\ tried = <<>>
    /\ epoch_kind = "None"
    /\ parsed = NoMatch
    /\ tz = NoTz
    /\ result = NoResult
    /\ trace = <<>>

\* return `r` from the step `step`
Return(step, r) ==
    /\ result' = r
    /\ pc' = "Done"
    /\ trace' = Append(trace, step)

\* fall through from `step` to `next`
Goto(step, next) ==
    /\ pc' = next
    /\ trace' = Append(trace, step)
    /\ UNCHANGED result

\* let s = s.trim()
TrimInput ==
    /\ op = "normalize" /\ pc = "Start"
    /\ s' = Trim(input)
    /\ pc' = "EpochAttempt"
    /\ UNCHANGED <<args, epoch_kind, formats, tried, parsed, tz, result, trace>>

EpochAttempt ==
    /\ pc = "EpochAttempt"
    /\ IF EpochStep(s).fall
       THEN /\ Goto("EpochAttempt", "Rfc3339Attempt")
            /\ UNCHANGED epoch_kind
       ELSE /\ Return("EpochAttempt", EpochStep(s).res)
            /\ epoch_kind' = EpochStep(s).kind
    /\ UNCHANGED <<args, s, formats, tried, parsed, tz>>

Rfc3339Attempt ==
    /\ pc = "Rfc3339Attempt"
    /\ IF ParseFromRfc3339(s).ok
       THEN Return("Rfc3339Attempt", OkIso(ParseFromRfc3339(s).val))
       ELSE Goto("Rfc3339Attempt", "Rfc2822Attempt")
    /\ UNCHANGED <<args, epoch_kind, s, formats, tried, parsed, tz>>

Rfc2822Attempt ==
    /\ pc = "Rfc2822Attempt"
    /\ IF ParseFromRfc2822(s).ok
       THEN Return("Rfc2822Attempt", OkIso(ParseFromRfc2822(s).val))
       ELSE Goto("Rfc2822Attempt", "FlexibleMatch")
    /\ UNCHANGED <<args, epoch_kind, s, formats, tried, parsed, tz>>

\* parse_datetime_flexible: build the candidate list
FlexibleBuild ==
    /\ pc = "FlexibleMatch"
    /\ formats' = BuildFormats(prefer_eu, custom_formats)
    /\ Goto("FlexibleMatch", "FlexibleLoop")
    /\ UNCHANGED <<args, epoch_kind, s, tried, parsed, tz>>

\* parse_datetime_flexible: one turn of the loop over the candidates
FlexibleTry ==
    /\ pc = "FlexibleLoop"
    /\ Len(tried) < Len(formats)
    /\ LET fmt == formats[Len(tried) + 1]
           r   == TryFormat(s, fmt)
       IN  /\ tried' = Append(tried, fmt)
           /\ CASE r.kind = "WithTimezone" ->
                     /\ result' = OkIso(r.dt)
                     /\ pc' = "Done"
                     /\ UNCHANGED parsed
                [] r.kind = "Naive" ->
                     /\ parsed' = r
                     /\ pc' = "ZoneResolve"
                     /\ UNCHANGED result
                [] OTHER ->
                     UNCHANGED <<pc, parsed, result>>
    /\ UNCHANGED <<args, epoch_kind, s, formats, tz, trace>>

\* parse_datetime_flexible: the list is exhausted
FlexibleExhausted ==
    /\ pc = "FlexibleLoop"
    /\ Len(tried) = Len(formats)
    /\ result' = InvalidInput("No matching format found for", <<s>>)
    /\ pc' = "Done"
    /\ UNCHANGED <<args, epoch_kind, s, formats, tried, parsed, tz, trace>>

\* ZoneResolve going back to the remaining patterns when the fallback zone
\* does not resolve
ZoneResolve_Backtrack ==
    /\ pc = "ZoneResolve"
    /\ LET r == parse_timezone_str(fallback_tz)
       IN  IF r.ok
           THEN /\ tz' = r.val
                /\ Goto("ZoneResolve", "Projection")
           ELSE /\ Goto("ZoneResolve", "FlexibleLoop")
                /\ UNCHANGED tz
    /\ UNCHANGED <<args, epoch_kind, s, formats, tried, parsed>>

\* parse_timezone_str(fallback_tz)?
ZoneResolve ==
    /\ pc = "ZoneResolve"
    /\ LET r == parse_timezone_str(fallback_tz)
       IN  IF r.ok
           THEN /\ tz' = r.val
                /\ Goto("ZoneResolve", "Projection")
           ELSE /\ Return("ZoneResolve", r.err)
                /\ UNCHANGED tz
    /\ UNCHANGED <<args, epoch_kind, s, formats, tried, parsed>>

\* the match on the resolved zone
Projection ==
    /\ pc = "Projection"
    /\ Return("Projection", Project(tz, parsed.naive))
    /\ UNCHANGED <<args, epoch_kind, s, formats, tried, parsed, tz>>

\* tz.rs: a call of parse_timezone_str
ResolveTimezone ==
    /\ op = "resolve_timezone" /\ pc = "Start"
    /\ LET r == tz_parse_timezone_str(fallback_tz)
       IN  /\ result' = IF r.ok THEN r.val ELSE r.err
           /\ tz' = IF r.ok THEN r.val ELSE NoTz
    /\ pc' = "Done"
    /\ UNCHANGED <<args, epoch_kind, s, formats, tried, parsed, trace>>

Next ==
    \/ TrimInput
    \/ EpochAttempt
    \/ Rfc3339Attempt
    \/ Rfc2822Attempt
    \/ FlexibleBuild
    \/ FlexibleTry
    \/ FlexibleExhausted
    \/ ZoneResolve
    \/ Projection
    \/ ResolveTimezone

Spec == Init /\ [][Next]_vars

\* ------------------------------------------------------------------------
\* The pipeline as functions of its arguments
\* ------------------------------------------------------------------------

\* parse_datetime_flexible: the outcome of the first pattern, from position
\* i on, that matches
RECURSIVE FirstMatch(_, _, _)
FirstMatch(str, fmts, i) ==
    IF i > Len(fmts) THEN NoMatch
    ELSE IF TryFormat(str, fmts[i]).kind # "NoMatch" THEN TryFormat(str, fmts[i])
    ELSE FirstMatch(str, fmts, i + 1)

parse_datetime_flexible(str, eu, customs) ==
    FirstMatch(str, BuildFormats(eu, customs), 1)

\* the end of normalize_datetime: the match on the flexible result `m`,
\* the fallback zone being resolved by `zone`
AfterFlexible(m, zone, str) ==
    CASE m.kind = "WithTimezone" -> OkIso(m.dt)
      [] m.kind = "Naive" ->
           IF zone.ok THEN Project(zone.val, m.naive) ELSE zone.err
      [] OTHER -> InvalidInput("No matching format found for", <<str>>)

AfterTrim(str, zone, eu, customs) ==
    IF ~EpochStep(str).fall THEN EpochStep(str).res
    ELSE IF ParseFromRfc3339(str).ok THEN OkIso(ParseFromRfc3339(str).val)
    ELSE IF ParseFromRfc2822(str).ok THEN OkIso(ParseFromRfc2822(str).val)
    ELSE AfterFlexible(parse_datetime_flexible(str, eu, customs), zone, str)

normalize_datetime(str, fallback, eu, customs) ==
    AfterTrim(Trim(str), parse_timezone_str(fallback), eu, customs)

\* ------------------------------------------------------------------------
\* Epoch classification and range (C1, C2)
\* ------------------------------------------------------------------------

EpochLengths == {10, 13, 16, 19}

KindOfLength(n) ==
    CASE n = 10 -> "Seconds"
      [] n = 13 -> "Milliseconds"
      [] n = 16 -> "Microseconds"
      [] n = 19 -> "Nanoseconds"
      [] OTHER -> "None"

\* the epoch step has run
EpochStepDone == op = "normalize" /\ Len(trace) >= 1

\* the epoch step returned: it handled the input
EpochHandled == EpochStepDone /\ pc = "Done" /\ trace = <<"EpochAttempt">>

\* C1: a trimmed input made only of digits is treated as an epoch value if
\* and only if its length is 10, 13, 16 or 19, with granularity Seconds,
\* Milliseconds, Microseconds, Nanoseconds respectively; an all-digit input
\* of another length falls through to the later parsers.
C1_EpochIffLength ==
    (EpochStepDone /\ AllAsciiDigits(s)) =>
        /\ EpochHandled <=> Len(s) \in EpochLengths
        /\ EpochHandled => epoch_kind = KindOfLength(Len(s))

\* the digits lie outside [1e9, 3.25e9] scaled to the granularity
OutsideBound(digits) ==
    LET kind == KindOfLength(Len(digits))
    IN  ~(NumLeq(EpochLow(kind), digits) /\ NumLeq(digits, EpochHigh(kind)))

\* C2: an all-digit input of length 10, 13, 16 or 19 whose value lies
\* outside the bound of its granularity ends in InvalidInput "epoch out of
\* valid range" and never in an instant, whatever the fallback zone, the
\* prefer_eu flag and the custom formats are.
C2_OutOfRangeIsInvalidInput ==
    (op = "normalize" /\ pc = "Done" /\ AllAsciiDigits(s)
     /\ Len(s) \in EpochLengths /\ OutsideBound(s)) =>
        /\ result.kind = "InvalidInput"
        /\ result.reason = "Epoch out of valid range"

\* ------------------------------------------------------------------------
\* The fallback zone is read only for a naive match (C3)
\* ------------------------------------------------------------------------

\* position i of the candidate list is the first to match and is a
\* zone-qualified pattern
ZoneQualifiedAt(str, fmts, i) ==
    /\ HasOffsetToken(fmts[i])
    /\ DateTimeParseFromStr(str, fmts[i]).ok
    /\ \A j \in 1..(i - 1) : TryFormat(str, fmts[j]).kind = "NoMatch"

\* the input is handled by the epoch step, by RFC 3339, by RFC 2822 or by
\* a zone-qualified flexible pattern
HandledWithoutZone(str, eu, customs) ==
    \/ ~EpochStep(str).fall
    \/ ParseFromRfc3339(str).ok
    \/ ParseFromRfc2822(str).ok
    \/ \E i \in 1..Len(BuildFormats(eu, customs)) :
          ZoneQualifiedAt(str, BuildFormats(eu, customs), i)

\* C3: for an input handled by the epoch step, RFC 3339, RFC 2822 or a
\* zone-qualified flexible pattern, the fallback zone is never resolved
\* and the outcome is the same for every fallback zone, the specifiers
\* that fail resolution included.
C3_FallbackOnlyForNaive ==
    (op = "normalize" /\ pc = "Done"
     /\ HandledWithoutZone(Trim(input), prefer_eu, custom_formats)) =>
        /\ \A i \in 1..Len(trace) : trace[i] # "ZoneResolve"
        /\ tz = NoTz
        /\ \A z \in ZoneSpecs :
              normalize_datetime(input, z, prefer_eu, custom_formats) = result

\* a zone-qualified flexible pattern matched under a fallback zone that
\* does not resolve, and an instant was returned
C3_Witness ==
    /\ op = "normalize" /\ pc = "Done"
    /\ EpochStep(s).fall /\ ~ParseFromRfc3339(s).ok /\ ~ParseFromRfc2822(s).ok
    /\ HandledWithoutZone(s, prefer_eu, custom_formats)
    /\ ~parse_timezone_str(fallback_tz).ok
    /\ result.kind = "Iso"

\* ------------------------------------------------------------------------
\* Order of the candidate patterns (C4, C5)
\* ------------------------------------------------------------------------

\* the flexible matcher has returned a match
FlexibleMatched ==
    /\ op = "normalize"
    /\ tried # <<>>
    /\ TryFormat(s, tried[Len(tried)]).kind # "NoMatch"

\* the flexible matcher has returned, with a match or without
FlexibleReturned ==
    /\ op = "normalize"
    /\ formats # <<>>
    /\ pc \in {"ZoneResolve", "Projection", "Done"}

\* C4: the candidates are tried in list order, every custom pattern in the
\* order given before any default pattern; the result is that of the first
\* pattern in that order that parses the input, also when a later default
\* pattern would parse it too, and no pattern after the first match is
\* tried.
C4_FirstMatchWins ==
    (op = "normalize" /\ formats # <<>>) =>
        /\ Len(formats) > Len(custom_formats)
        /\ SubSeq(formats, 1, Len(custom_formats)) = custom_formats
        /\ Len(tried) <= Len(formats)
        /\ tried = SubSeq(formats, 1, Len(tried))
        /\ \A i \in 1..(Len(tried) - 1) : TryFormat(s, tried[i]).kind = "NoMatch"
        /\ FlexibleReturned =>
             /\ FlexibleMatched \/ Len(tried) = Len(formats)
             /\ \A k \in 1..Len(custom_formats) :
                   TryFormat(s, custom_formats[k]).kind # "NoMatch" =>
                       /\ Len(tried) <= k
                       /\ FlexibleMatched
             /\ FlexibleMatched =>
                   LET m == TryFormat(s, tried[Len(tried)])
                   IN  IF m.kind = "Naive" THEN parsed = m
                       ELSE parsed = NoMatch /\ result = OkIso(m.dt)
             /\ ~FlexibleMatched =>
                   /\ parsed = NoMatch
                   /\ result = InvalidInput("No matching format found for", <<s>>)

\* a custom pattern won over a default pattern that reads the same input
\* differently
C4_Witness ==
    /\ FlexibleReturned /\ FlexibleMatched
    /\ Len(tried) <= Len(custom_formats)
    /\ \E i \in (Len(custom_formats) + 1)..Len(formats) :
          /\ TryFormat(s, formats[i]).kind # "NoMatch"
          /\ TryFormat(s, formats[i]) # TryFormat(s, tried[Len(tried)])

AmbiguousDayMonth == <<"0", "1", "-", "0", "6", "-", "2", "0", "2", "3">>

\* C5: with no custom formats, "01-06-2023" is read as 1 June 2023 at
\* midnight when prefer_eu is true and as 6 January 2023 at midnight when
\* it is false, whatever the fallback zone is.
C5_PreferEuDecides ==
    (FlexibleReturned /\ s = AmbiguousDayMonth /\ custom_formats = <<>>) =>
        parsed = NaiveParsed(IF prefer_eu THEN Naive(2023, 6, 1, 0, 0, 0, 0)
                             ELSE Naive(2023, 1, 6, 0, 0, 0, 0))

\* both readings are reached and projected to different instants
C5_Witness ==
    /\ pc = "Done" /\ s = AmbiguousDayMonth /\ custom_formats = <<>>
    /\ result.kind = "Iso"
    /\ normalize_datetime(input, fallback_tz, ~prefer_eu, custom_formats).kind = "Iso"
    /\ normalize_datetime(input, fallback_tz, ~prefer_eu, custom_formats) # result

\* ------------------------------------------------------------------------
\* Projection of a naive time (C6, C7)
\* ------------------------------------------------------------------------

\* the projection has returned for the resolved zone tz
Projected == op = "normalize" /\ pc = "Done" /\ tz # NoTz /\ parsed.kind = "Naive"

\* C6: with a fallback zone that resolves to a fixed offset, the projection
\* of a naive local time yields the one instant equal to the local time
\* minus the offset, and never AmbiguousTime.
C6_FixedOffsetSingle ==
    (Projected /\ tz.kind = "FixedOffset") =>
        result = OkIso(ShiftBack(NaiveAsUtc(parsed.naive), tz.offset))

\* the offset a zone of the database has at the UTC instant u of year y
OffsetAtUtc(name, u, y) ==
    LET z == TzDatabase[TzIndex(name)]
    IN  IF z.eu /\ y \in EuRuleYears
           /\ ~Before(u, LastSunday(y, 3), 3600) /\ Before(u, LastSunday(y, 10), 3600)
        THEN z.std + 3600
        ELSE z.std

\* the UTC instants, earliest first, that the rules of the zone map to the
\* local time n: the representable instants u whose local time, u plus the
\* offset in force at u, is n
UtcInstantsOf(name, n) ==
    LET z      == TzDatabase[TzIndex(name)]
        summer == ShiftBack(NaiveAsUtc(n), z.std + 3600)
        winter == ShiftBack(NaiveAsUtc(n), z.std)
    IN  (IF OffsetAtUtc(name, summer, n.y) = z.std + 3600 /\ InstantInRange(summer)
         THEN <<summer>> ELSE <<>>)
        \o (IF OffsetAtUtc(name, winter, n.y) = z.std /\ InstantInRange(winter)
            THEN <<winter>> ELSE <<>>)

\* C7: with a named fallback zone the outcome is fixed by the number of UTC
\* instants the zone rules map the naive local time to: one gives that
\* instant; two give AmbiguousTime with the naive input and the two
\* instants, the earlier first, which differ by the summer-time shift of
\* one hour; none gives InvalidInput naming the local time and the zone.
C7_NamedZoneOutcome ==
    (Projected /\ tz.kind = "Iana") =>
        LET us == UtcInstantsOf(tz.tz, parsed.naive)
        IN  CASE Len(us) = 1 -> result = OkIso(us[1])
              [] Len(us) = 2 ->
                   /\ result = AmbiguousTime(parsed.naive, us)
                   /\ result.options[1] # result.options[2]
                   /\ SecondsBetween(result.options[2], result.options[1]) = 3600
              [] OTHER ->
                   /\ result.kind = "InvalidInput"
                   /\ result.reason = "Nonexistent local time due to DST"
                   /\ result.args = <<parsed.naive, tz.tz>>

\* a local time in the overlap of a named zone ended in AmbiguousTime
C7_Witness ==
    /\ Projected /\ tz.kind = "Iana"
    /\ Len(UtcInstantsOf(tz.tz, parsed.naive)) = 2
    /\ result.kind = "AmbiguousTime"

\* ------------------------------------------------------------------------
\* The timezone resolver of tz.rs (C8, C9, C10)
\* ------------------------------------------------------------------------

Resolved == op = "resolve_timezone" /\ pc = "Done"

\* C8: "UTC" in any letter case resolves to a fixed offset of zero seconds,
\* never to a named zone and never to an error.
C8_UtcAnyCase ==
    (Resolved /\ fallback_tz \in {<<"U", "T", "C">>, <<"u", "t", "c">>, <<"U", "t", "c">>}) =>
        result = TzFixed(0)

C8_Witness == Resolved /\ fallback_tz = <<"u", "t", "c">> /\ result = TzFixed(0)

ResolverReasons ==
    {"Invalid fixed offset format", "Invalid IANA timezone format",
     "Unknown IANA timezone"}

\* the reason the shape of a trimmed specifier calls for when it fails
ReasonOfShape(z) ==
    IF z # <<>> /\ z[1] \in {"+", "-"} THEN "Invalid fixed offset format"
    ELSE IF (\A i \in 1..Len(z) : z[i] # "/") \/ z[1] = "/" \/ z[Len(z)] = "/"
    THEN "Invalid IANA timezone format"
    ELSE "Unknown IANA timezone"

\* C9: a failure of the resolver carries one of three reasons, decided by
\* the shape of the specifier: a leading sign that is no valid offset,
\* "invalid fixed offset format"; otherwise, for a specifier other than
\* UTC, no "/" or a "/" at either end, "invalid IANA timezone format"; a
\* well-shaped name that is not in the database, "unknown IANA timezone".
C9_ThreeReasons ==
    Resolved =>
        /\ result.kind \in {"FixedOffset", "Iana", "InvalidInput"}
        /\ result.kind = "InvalidInput" =>
              /\ result.reason \in ResolverReasons
              /\ result.reason = ReasonOfShape(Trim(fallback_tz))
        /\ fallback_tz \in {<<"/", "A", "s", "i", "a", "/", "J", "a", "k", "a", "r", "t", "a">>, <<"A", "s", "i", "a", "/", "J", "a", "k", "a", "r", "t", "a", "/">>, <<"A", "s", "i", "a">>, <<"0", "8", "0", "0">>} =>
              /\ result.kind = "InvalidInput"
              /\ result.reason = "Invalid IANA timezone format"
        /\ fallback_tz \in {<<"+", "7">>, <<"+", "2", "5", ":", "0", "0">>, <<"-", "a", "b">>} =>
              /\ result.kind = "InvalidInput"
              /\ result.reason = "Invalid fixed offset format"
        /\ fallback_tz = <<"I", "n", "v", "a", "l", "i", "d", "/", "Z", "o", "n", "e">> =>
              /\ result.kind = "InvalidInput"
              /\ result.reason = "Unknown IANA timezone"

\* each of the three reasons is the outcome of some specifier
C9_Witness ==
    /\ Resolved /\ result.kind = "InvalidInput"
    /\ fallback_tz = <<"I", "n", "v", "a", "l", "i", "d", "/", "Z", "o", "n", "e">>
    /\ \A r \in ResolverReasons :
          \E z \in ZoneSpecs :
             /\ ~tz_parse_timezone_str(z).ok
             /\ tz_parse_timezone_str(z).err.reason = r

\* what normalize returns for a naive match when the fallback zone is
\* resolved by the resolver of tz.rs
ViaResolver(z, n) ==
    IF tz_parse_timezone_str(z).ok
    THEN Project(tz_parse_timezone_str(z).val, n)
    ELSE tz_parse_timezone_str(z).err

\* C10: after a naive match, normalize behaves as if it projected the
\* naive time with the resolver of tz.rs applied to the fallback specifier:
\* "utc" in any case acts as a zero offset and a failing specifier gives
\* the InvalidInput reason of that resolver.
C10_NormalizeUsesResolver ==
    (op = "normalize" /\ pc = "Done" /\ parsed.kind = "Naive") =>
        result = ViaResolver(fallback_tz, parsed.naive)

\* ------------------------------------------------------------------------
\* The default pattern list (formats.rs) and the list normalize uses
\* ------------------------------------------------------------------------

\* default_formats: the day-first block
DefaultEuFormats ==
    << <<"%d", "-", "%m", "-", "%Y", " ", "%H", ":", "%M", ":", "%S", "%z">>,
       <<"%d", "-", "%m", "-", "%Y", " ", "%H", ":", "%M", ":", "%S">>,
       <<"%d", "-", "%m", "-", "%Y", " ", "%H", ":", "%M">>,
       <<"%d", "-", "%m", "-", "%Y">>,
       <<"%d", "/", "%m", "/", "%Y", " ", "%H", ":", "%M", ":", "%S">>,
       <<"%d", "/", "%m", "/", "%Y", " ", "%H", ":", "%M">>,
       <<"%d", "/", "%m", "/", "%Y">>,
       <<"%d", ".", "%m", ".", "%Y", " ", "%H", ":", "%M", ":", "%S">>,
       <<"%d", ".", "%m", ".", "%Y">>,
       <<"%d", " ", "%b", " ", "%Y">>,
       <<"%d", " ", "%B", " ", "%Y">> >>

\* default_formats: the month-first block
DefaultUsFormats ==
    << <<"%m", "-", "%d", "-", "%Y", " ", "%H", ":", "%M", ":", "%S", "%z">>,
       <<"%m", "-", "%d", "-", "%Y", " ", "%H", ":", "%M", ":", "%S">>,
       <<"%m", "-", "%d", "-", "%Y", " ", "%H", ":", "%M">>,
       <<"%m", "-", "%d", "-", "%Y">>,
       <<"%m", "/", "%d", "/", "%Y", " ", "%H", ":", "%M", ":", "%S">>,
       <<"%m", "/", "%d", "/", "%Y", " ", "%H", ":", "%M">>,
       <<"%m", "/", "%d", "/", "%Y">>,
       <<"%B", " ", "%d", ",", " ", "%Y">>,
       <<"%b", " ", "%d", ",", " ", "%Y">> >>

\* default_formats: the ISO 8601, compact, week-date and RFC 822 tail
DefaultTailFormats ==
    << <<"%Y", "-", "%m", "-", "%d", "T", "%H", ":", "%M", ":", "%S", "%z">>,
       <<"%Y", "-", "%m", "-", "%d", "T", "%H", ":", "%M", ":", "%S", "%:z">>,
       <<"%Y", "-", "%m", "-", "%d", " ", "%H", ":", "%M", ":", "%S", "%z">>,
       <<"%Y", "-", "%m", "-", "%d", " ", "%H", ":", "%M", ":", "%S">>,
       <<"%Y", "-", "%m", "-", "%d">>,
       <<"%Y", "-", "%m", "-", "%d", "T", "%H", ":", "%M", ":", "%S", "%.f", "%z">>,
       <<"%Y", "-", "%m", "-", "%d", "T", "%H", ":", "%M", ":", "%S", "%.f", "%:z">>,
       <<"%Y", "-", "%m", "-", "%d", " ", "%H", ":", "%M", ":", "%S", "%.f", "%z">>,
       <<"%Y", "-", "%m", "-", "%d", " ", "%H", ":", "%M", ":", "%S", "%.f">>,
       <<"%Y", "%m", "%d", "T", "%H", "%M", "%S", "%z">>,
       <<"%Y", "%m", "%d", "T", "%H", "%M", "%S">>,
       <<"%Y", "%m", "%d", "%H", "%M", "%S", "%Z">>,
       <<"%Y", "%m", "%d", "%H", "%M", "%S">>,
       <<"%G", "-", "W", "%V", "-", "%u">>,
       <<"%G", "-", "W", "%V">>,
       <<"%a", ",", " ", "%d", " ", "%b", " ", "%Y", " ", "%H", ":", "%M", ":", "%S", " ", "%z">>,
       <<"%d", " ", "%b", " ", "%Y", " ", "%H", ":", "%M", ":", "%S", " ", "%z">> >>

default_formats(eu) ==
    (IF eu THEN DefaultEuFormats ELSE DefaultUsFormats) \o DefaultTailFormats

\* the flexible matcher has built its candidate list
ListBuilt ==
    /\ op = "normalize"
    /\ \E i \in 1..Len(trace) : trace[i] = "FlexibleMatch"

\* C11: the candidate list the flexible matcher tries inside normalize is
\* the custom patterns followed by default_formats(prefer_eu), with the same
\* contents in the same order.
C11_ListIsDefaultFormats ==
    ListBuilt => formats = custom_formats \o default_formats(prefer_eu)

\* ------------------------------------------------------------------------
\* The order of the steps
\* ------------------------------------------------------------------------

StepOrder ==
    <<"EpochAttempt", "Rfc3339Attempt", "Rfc2822Attempt", "FlexibleMatch",
      "ZoneResolve", "Projection">>

IsPrefix(a, b) ==
    /\ Len(a) <= Len(b)
    /\ \A i \in 1..Len(a) : a[i] = b[i]

\* the position of a control point in the pipeline
Rank(p) ==
    CASE p = "Start" -> 0
      [] p = "EpochAttempt" -> 1
      [] p = "Rfc3339Attempt" -> 2
      [] p = "Rfc2822Attempt" -> 3
      [] p = "FlexibleMatch" -> 4
      [] p = "FlexibleLoop" -> 5
      [] p = "ZoneResolve" -> 6
      [] p = "Projection" -> 7
      [] OTHER -> 8

\* the steps run so far are the first steps of the fixed order, and each
\* of them but the last fell through
FellThrough ==
    /\ IsPrefix(trace, StepOrder)
    /\ Len(trace) >= 2 => EpochStep(s).fall
    /\ Len(trace) >= 3 => ~ParseFromRfc3339(s).ok
    /\ Len(trace) >= 4 => ~ParseFromRfc2822(s).ok
    /\ Len(trace) >= 5 =>
          /\ parsed.kind = "Naive"
          /\ tried # <<>>
          /\ TryFormat(s, tried[Len(tried)]) = parsed
    /\ Len(trace) >= 6 =>
          /\ parse_timezone_str(fallback_tz).ok
          /\ tz = parse_timezone_str(fallback_tz).val

\* the value returned is that of the last step run
LastStepDecides ==
    CASE Len(trace) = 1 ->
           /\ ~EpochStep(s).fall
           /\ result = EpochStep(s).res
           /\ formats = <<>> /\ tried = <<>>
      [] Len(trace) = 2 ->
           /\ result = OkIso(ParseFromRfc3339(s).val)
           /\ formats = <<>> /\ tried = <<>>
      [] Len(trace) = 3 ->
           /\ result = OkIso(ParseFromRfc2822(s).val)
           /\ formats = <<>> /\ tried = <<>>
      [] Len(trace) = 4 ->
           \/ /\ tried # <<>>
              /\ TryFormat(s, tried[Len(tried)]).kind = "WithTimezone"
              /\ result = OkIso(TryFormat(s, tried[Len(tried)]).dt)
           \/ /\ tried = formats
              /\ \A i \in 1..Len(tried) : TryFormat(s, tried[i]).kind = "NoMatch"
              /\ result = InvalidInput("No matching format found for", <<s>>)
      [] Len(trace) = 5 ->
           /\ ~parse_timezone_str(fallback_tz).ok
           /\ result = parse_timezone_str(fallback_tz).err
      [] Len(trace) = 6 ->
           result = Project(tz, parsed.naive)
      [] OTHER -> FALSE

\* one outcome: nothing is returned before the end and the value returned
\* is one instant or one error
OneOutcome ==
    IF pc = "Done"
    THEN result.kind \in {"Iso", "InvalidInput", "AmbiguousTime"}
    ELSE result = NoResult

StepsInOrder ==
    op = "normalize" =>
        /\ FellThrough
        /\ OneOutcome
        /\ pc = "Done" => LastStepDecides
        /\ (Len(trace) >= 1 /\ ~EpochStep(s).fall) =>
              pc = "Done" /\ trace = <<"EpochAttempt">>

\* a step moves forward in the pipeline, or to the next pattern of the
\* list; the patterns tried and the steps run are only added to
Forward ==
    /\ pc # "Done"
    /\ \/ Rank(pc') > Rank(pc)
       \/ pc = "FlexibleLoop" /\ pc' = "FlexibleLoop"
          /\ Len(tried') = Len(tried) + 1
    /\ IsPrefix(tried, tried')
    /\ IsPrefix(trace, trace')
    /\ tz # NoTz => tz' = tz
    /\ parsed # NoMatch => parsed' = parsed

\* a call that has not returned has a step to take, and the loop over the
\* patterns has no more turns than the list has patterns: with Forward,
\* every call returns
Ends ==
    /\ Len(tried) <= Len(formats)
    /\ pc # "Done" =>
          \/ pc \in {"Start", "EpochAttempt", "Rfc3339Attempt",
                     "Rfc2822Attempt", "FlexibleMatch", "ZoneResolve",
                     "Projection"}
          \/ pc = "FlexibleLoop"

\* C12: a call of normalize runs EpochAttempt, Rfc3339Attempt,
\* Rfc2822Attempt, FlexibleMatch and, only for a naive match, ZoneResolve
\* and Projection in this order; a step runs only if every earlier step
\* fell through; the call always ends, in one instant or one error, and
\* never goes back: the outcome of the epoch step is final whatever the
\* custom patterns are, and a failed zone resolution or projection is
\* returned without trying further patterns.
C12_FixedOrderNoBacktracking ==
    /\ [](StepsInOrder /\ Ends)
    /\ [][Forward]_vars

\* two custom patterns of which the second reads "01-06-2023" month first
MonthFirstCustoms ==
    << <<"%Y", "-", "%d", "-", "%m">>, <<"%m", "-", "%d", "-", "%Y">> >>

\* the epoch step has returned "out of range" although the custom pattern
\* matches the digits; and a zone that does not resolve ends a call whose
\* input a later pattern of the list matches too
C12_Witness ==
    /\ op = "normalize" /\ pc = "Done"
    /\ trace = <<"EpochAttempt">>
    /\ result = InvalidInput("Epoch out of valid range", <<>>)
    /\ custom_formats # <<>>
    /\ TryFormat(s, custom_formats[1]).kind = "Naive"
    /\ tried = <<>>
    /\ MonthFirstCustoms \in CustomLists
    /\ \E z \in FallbackZones :
          /\ ~parse_timezone_str(z).ok
          /\ normalize_datetime(<<"0", "1", "-", "0", "6", "-", "2", "0", "2", "3">>, z, TRUE, MonthFirstCustoms)
                = parse_timezone_str(z).err
          /\ TryFormat(<<"0", "1", "-", "0", "6", "-", "2", "0", "2", "3">>,
                       BuildFormats(TRUE, MonthFirstCustoms)[2]).kind = "Naive"
          /\ TryFormat(<<"0", "1", "-", "0", "6", "-", "2", "0", "2", "3">>,
                       BuildFormats(TRUE, MonthFirstCustoms)[5]).kind = "Naive"

====
